---- MODULE Spec2Model ----
(***************************************************************************)
(* Verification model of the tender-response backend.                      *)
(*                                                                         *)
(*   SpecPipeline : services/pipeline.py process_document, driven by       *)
(*                  api/documents.py trigger_processing, on one document.  *)
(*   SpecMatcher  : services/matcher.py VectorMatcher (index, item list,   *)
(*                  files on disk, search) and its callers.                *)
(*   SpecComposer : services/composer.py ResponseComposer.compose.         *)
(*   SpecParser   : services/parser.py DocumentParser.parse.               *)
(*   SpecExtractor: services/extractor.py RequirementExtractor.extract.    *)
(*   SpecCategorize: services/extractor.py _categorize on hit counts.      *)
(*   SpecResponses: api/responses.py on the responses row and the        *)
(*                  match_results rows of one requirement.                 *)
(*   SpecSearch   : services/matcher.py search on a knowledge base with   *)
(*                  many items of another tenant.                          *)
(*   SpecDetector : calculate_ai_score of services/ai_detector.py and of   *)
(*                  api/humanize.py on two texts.                          *)
(*                                                                         *)
(* Each specification moves only its own variables; the others stay at     *)
(* their initial values.                                                   *)
(***************************************************************************)
EXTENDS Integers, Sequences, FiniteSets, TLC

VARIABLES
    doc,        \* the documents row: status, processing_progress, error_message
    queue,      \* parse_document_task messages queued and not yet started
    triggers,   \* trigger_processing requests accepted so far
    pc,         \* per worker: idle, in the try block, in the except clause, done, raised
    step,       \* per worker: index in Steps of the step its run executes next
    exc,        \* per worker: str(e) of the exception being handled
    writes,     \* per worker: the update_data of every status write of its run
    req_rows,   \* the requirements rows of the document, in insertion order
    index,      \* VectorMatcher.index: the vectors of the dense index, in position order
    kb_items,   \* VectorMatcher.kb_items
    id_to_index,\* VectorMatcher.id_to_index
    fileIndex,  \* the file at settings.faiss_index_path
    fileKb,     \* the file at settings.knowledge_base_path
    call,       \* the search whose answer is being handed to its caller, if any
    results,    \* the list that search returned
    match_rows, \* the match_results rows the pipeline inserted from that list
    saveFailures, \* calls of _save_index that raised so far
    removed,    \* ids whose remove_item returned on this matcher and that were not added since
    last,       \* the latest operation that changed the matcher: name, outcome, arguments
    c_pc,       \* compose: idle, refine (inside the attempt loop), done
    c_in,       \* compose: what the call was given, what it extracted, the language
                \* of the content, and whether settings.mistral_api_key is set
    c_attempt,  \* _refine_for_tender: the loop variable attempt
    c_requests, \* _refine_for_tender: chat-completion requests sent by this call
    c_current,  \* _refine_for_tender: current_text, as <<>> (None) or <<text>>
    c_scores,   \* _refine_for_tender: the ai_percentage of every candidate so far
    c_resp,     \* compose: the ComposedResponse returned, as <<>> or <<response>>
    c_via,      \* compose: the path that built c_resp and what humanize_text did on it
    x_pc,       \* parse: idle, ocr (inside _ocr_pdf), done
    x_in,       \* parse: the declared file type and what the bytes hold
    x_read,     \* parse: whether a handler was given the bytes
    x_out,      \* parse: the ParsedDocument returned or the exception raised
    e_pc,       \* extract: idle, llm (awaiting the request of _extract_llm), done
    e_in,       \* extract: the sentences of the text, its language, whether a key is set
    e_out,      \* extract: the list returned
    e_requests, \* extract: requests _extract_llm sent in this call
    k_scores,   \* _categorize: the hit count of each category for the sentence
    d_pc,       \* calculate_ai_score on two texts: idle, done
    d_in,       \* which copy of the detector ran, and the two texts it was given
    d_out,      \* the raw total and the returned score of each text
    match_results, \* the match_results rows of one requirement, in insertion order
    response,   \* the responses row of that requirement, if any
    g_matches,  \* the list the latest process_response_generation handed to compose
    s_pc,       \* search on a large knowledge base: idle, done
    s_in,       \* the knowledge base and the arguments of that search
    s_out,      \* the list that search returned
    k_result    \* _categorize: the tuple returned, as <<>> or <<result>>

pvars == <<doc, queue, triggers, pc, step, exc, writes, req_rows>>

mvars == <<index, kb_items, id_to_index, fileIndex, fileKb, call, results, match_rows,
           saveFailures, removed, last>>

(***************************************************************************)
(* Pipeline: documents row and process_document                            *)
(***************************************************************************)

\* Number of trigger_processing requests the model accepts.
MaxTriggers == 2

\* Worker processes that pick up queued tasks.
Workers == {"w1", "w2"}

\* error_message column not set / key not present in update_data.
Absent == "<absent>"

\* No exception is being handled.
NoExc == "<none>"

StatusOrder == <<"UPLOADED", "PARSING", "EXTRACTING", "MATCHING", "READY">>

StatusRank(s) == CHOOSE i \in 1..Len(StatusOrder) : StatusOrder[i] = s

\* Steps with the second EXTRACTING write carrying the status of the first
\* stage.
StepsStaleStatus == <<
    [kind |-> "call",  name |-> "lookup",            status |-> "",           progress |-> 0],
    [kind |-> "write", name |-> "status",            status |-> "PARSING",    progress |-> 10],
    [kind |-> "call",  name |-> "download",          status |-> "",           progress |-> 0],
    [kind |-> "call",  name |-> "parse",             status |-> "",           progress |-> 0],
    [kind |-> "write", name |-> "status",            status |-> "PARSING",    progress |-> 30],
    [kind |-> "write", name |-> "status",            status |-> "EXTRACTING", progress |-> 40],
    [kind |-> "call",  name |-> "extract",           status |-> "",           progress |-> 0],
    [kind |-> "call",  name |-> "save_requirements", status |-> "",           progress |-> 0],
    [kind |-> "write", name |-> "status",            status |-> "PARSING",    progress |-> 60],
    [kind |-> "write", name |-> "status",            status |-> "MATCHING",   progress |-> 70],
    [kind |-> "call",  name |-> "match",             status |-> "",           progress |-> 0],
    [kind |-> "call",  name |-> "save_matches",      status |-> "",           progress |-> 0],
    [kind |-> "write", name |-> "status",            status |-> "MATCHING",   progress |-> 90],
    [kind |-> "call",  name |-> "save_summary",      status |-> "",           progress |-> 0],
    [kind |-> "write", name |-> "status",            status |-> "READY",      progress |-> 100] >>

\* The body of the try block, one entry per call that can raise. A "write"
\* entry is a call of _update_status, a "call" entry any other step.
Steps == <<
    [kind |-> "call",  name |-> "lookup",            status |-> "",           progress |-> 0],
    [kind |-> "write", name |-> "status",            status |-> "PARSING",    progress |-> 10],
    [kind |-> "call",  name |-> "download",          status |-> "",           progress |-> 0],
    [kind |-> "call",  name |-> "parse",             status |-> "",           progress |-> 0],
    [kind |-> "write", name |-> "status",            status |-> "PARSING",    progress |-> 30],
    [kind |-> "write", name |-> "status",            status |-> "EXTRACTING", progress |-> 40],
    [kind |-> "call",  name |-> "extract",           status |-> "",           progress |-> 0],
    [kind |-> "call",  name |-> "save_requirements", status |-> "",           progress |-> 0],
    [kind |-> "write", name |-> "status",            status |-> "EXTRACTING", progress |-> 60],
    [kind |-> "write", name |-> "status",            status |-> "MATCHING",   progress |-> 70],
    [kind |-> "call",  name |-> "match",             status |-> "",           progress |-> 0],
    [kind |-> "call",  name |-> "save_matches",      status |-> "",           progress |-> 0],
    [kind |-> "write", name |-> "status",            status |-> "MATCHING",   progress |-> 90],
    [kind |-> "call",  name |-> "save_summary",      status |-> "",           progress |-> 0],
    [kind |-> "write", name |-> "status",            status |-> "READY",      progress |-> 100] >>

NSteps == Len(Steps)

\* str(e) of an exception raised by a step: a text naming the failure, or the
\* empty string (an exception constructed without arguments, e.g. a timeout).
ExcMessages(i) == {"", Steps[i].name \o " failed"}

\* _update_status builds update_data: error_message only when error is truthy.
UpdateData(status, progress, error) ==
    [status |-> status,
     processing_progress |-> progress,
     error_message |-> IF error # Absent /\ error # "" THEN error ELSE Absent]

\* supabase update(update_data).eq('id', ...): the keys present overwrite the row.
ApplyUpdate(row, u) ==
    [status |-> u.status,
     processing_progress |-> u.processing_progress,
     error_message |-> IF u.error_message # Absent THEN u.error_message
                       ELSE row.error_message]

\* What extract returns for the file of the document, as the rows
\* process_document inserts: the file does not change between runs.
DocRequirements ==
    <<[requirement_text |-> "shall provide", extraction_order |-> 0],
      [requirement_text |-> "must comply", extraction_order |-> 1]>>

\* trigger_processing: the status check that guards queueing a task.
MayTrigger(status) == status \in {"UPLOADED", "ERROR"}

\* POST /api/documents/{id}/process accepted: a task is queued; the row is
\* only read.
TriggerProcessing ==
    /\ MayTrigger(doc.status)
    /\ triggers < MaxTriggers
    /\ triggers' = triggers + 1
    /\ queue' = queue + 1
    /\ UNCHANGED <<doc, pc, step, exc, writes, req_rows>>

\* POST /api/documents/{id}/process refused with 400: nothing changes.
TriggerRefused ==
    /\ ~MayTrigger(doc.status)
    /\ UNCHANGED pvars

\* A free worker takes a queued task and enters process_document.
TaskStart(w) ==
    /\ queue > 0
    /\ pc[w] \in {"idle", "done", "raised"}
    /\ queue' = queue - 1
    /\ pc' = [pc EXCEPT ![w] = "try"]
    /\ step' = [step EXCEPT ![w] = 1]
    /\ exc' = [exc EXCEPT ![w] = NoExc]
    /\ writes' = [writes EXCEPT ![w] = <<>>]
    /\ UNCHANGED <<doc, triggers, req_rows>>

Running(w) == pc[w] \in {"try", "except"}

\* Step pc[w] of the try block returns normally.
StepOk(w) ==
    /\ pc[w] = "try"
    /\ LET s == Steps[step[w]]
           u == UpdateData(s.status, s.progress, Absent)
       IN  /\ IF s.kind = "write"
              THEN /\ doc' = ApplyUpdate(doc, u)
                   /\ writes' = [writes EXCEPT ![w] = Append(@, u)]
              ELSE UNCHANGED <<doc, writes>>
           /\ IF s.name = "save_requirements"
              THEN req_rows' = req_rows \o DocRequirements
              ELSE UNCHANGED req_rows
    /\ IF step[w] = NSteps
       THEN pc' = [pc EXCEPT ![w] = "done"] /\ UNCHANGED step
       ELSE step' = [step EXCEPT ![w] = @ + 1] /\ UNCHANGED pc
    /\ UNCHANGED <<queue, triggers, exc>>

\* Step pc[w] raises: control moves to the except clause. The loop that
\* inserts the requirements can raise after some of its inserts.
StepRaise(w) ==
    /\ pc[w] = "try"
    /\ IF Steps[step[w]].name = "save_requirements"
       THEN \E n \in 0..(Len(DocRequirements) - 1) :
               req_rows' = req_rows \o SubSeq(DocRequirements, 1, n)
       ELSE UNCHANGED req_rows
    /\ \E m \in ExcMessages(step[w]) :
          exc' = [exc EXCEPT ![w] = m]
    /\ pc' = [pc EXCEPT ![w] = "except"]
    /\ UNCHANGED <<doc, queue, triggers, step, writes>>

\* except clause: _update_status(document_id, "ERROR", 0, str(e)), then raise.
HandlerWrite(w) ==
    /\ pc[w] = "except"
    /\ LET u == UpdateData("ERROR", 0, exc[w])
       IN  /\ doc' = ApplyUpdate(doc, u)
           /\ writes' = [writes EXCEPT ![w] = Append(@, u)]
    /\ pc' = [pc EXCEPT ![w] = "raised"]
    /\ UNCHANGED <<queue, triggers, step, exc, req_rows>>

\* except clause: the ERROR write itself raises and that exception leaves
\* process_document; nothing is written.
HandlerWriteFails(w) ==
    /\ pc[w] = "except"
    /\ pc' = [pc EXCEPT ![w] = "raised"]
    /\ UNCHANGED <<doc, queue, triggers, step, exc, writes, req_rows>>

InitPipeline ==
    /\ doc = [status |-> "UPLOADED", processing_progress |-> 0, error_message |-> Absent]
    /\ queue = 0
    /\ triggers = 0
    /\ pc = [w \in Workers |-> "idle"]
    /\ step = [w \in Workers |-> 0]
    /\ exc = [w \in Workers |-> NoExc]
    /\ writes = [w \in Workers |-> <<>>]
    /\ req_rows = <<>>

(***************************************************************************)
(* Vector matcher: index, item list, files, search                         *)
(***************************************************************************)

\* Largest number of items the model lets the matcher hold.
MaxItems == 2

\* Largest top_k a search is called with.
MaxTopK == 2

\* tenant_id is None.
NoTenant == "<null>"

Tenants == {"t1", "t2"}

\* Largest number of _save_index calls that fail in one behaviour.
MaxSaveFailures == 1

\* Rows of the knowledge_base table that the routes hand to the matcher.
KBRows == {
    [id |-> "a", content |-> "c1", tenant_id |-> "t1"],
    [id |-> "b", content |-> "c2", tenant_id |-> "t2"],
    [id |-> "c", content |-> "c1", tenant_id |-> NoTenant] }

KBIds == {r.id : r \in KBRows}

TenantOf(id) == (CHOOSE r \in KBRows : r.id = id).tenant_id

\* Texts a search is called with.
Queries == {"c2", "q"}

\* model.encode followed by L2 normalisation: a unit vector, named by a number;
\* the vectors of nearby numbers are close.
Embed(text) ==
    CASE text = "c1" -> 0
      [] text = "q"  -> 1
      [] text = "c2" -> 2

Abs(x) == IF x < 0 THEN -x ELSE x

\* Inner product of two unit vectors, in hundredths.
InnerProduct(u, v) == 100 - 40 * Abs(u - v)

MinScores == {0, 50}

Ids(items) == {items[i].id : i \in DOMAIN items}

\* {item['id']: i for i, item in enumerate(items)}: the last position wins.
IdMap(items) ==
    [k \in Ids(items) |->
        (CHOOSE i \in DOMAIN items :
            /\ items[i].id = k
            /\ \A j \in DOMAIN items : items[j].id = k => j <= i) - 1]

EmptyMap == [k \in {} |-> 0]

\* _create_empty_index: a new index, and the item list and the id map reset.
CreateEmptyIndex == [index |-> <<>>, kb_items |-> <<>>, id_to_index |-> EmptyMap]

\* How a call of _save_index can end.
SaveOutcomes == {"ok", "fail_index", "fail_kb"}

\* _save_index: the index file is written first, then the item file.
\*   fail_index : makedirs or write_index raises, no file has changed
\*   fail_kb    : the index file is written, open() of the item file raises
SaveIndexFile(idx, how) ==
    IF how = "fail_index" THEN fileIndex ELSE [state |-> "ok", data |-> idx]

SaveKbFile(items, how) ==
    IF how = "ok" THEN [state |-> "ok", data |-> items] ELSE fileKb

Outcome(how) == IF how = "ok" THEN "returned" ELSE "raised"

\* The save of an operation ends as `how`; failures are counted up to the bound.
Save(idx, items, how) ==
    /\ how # "ok" => saveFailures < MaxSaveFailures
    /\ saveFailures' = IF how = "ok" THEN saveFailures ELSE saveFailures + 1
    /\ fileIndex' = SaveIndexFile(idx, how)
    /\ fileKb' = SaveKbFile(items, how)

\* _load_index: both files are read when both exist; any exception falls back
\* to the empty index.
LoadIndex ==
    IF fileIndex.state # "absent" /\ fileKb.state # "absent"
    THEN IF fileKb.state = "ok"
         THEN [index |-> fileIndex.data, kb_items |-> fileKb.data,
               id_to_index |-> IdMap(fileKb.data)]
         ELSE CreateEmptyIndex
    ELSE CreateEmptyIndex

\* id: the id remove_item was given; before: kb_items when remove_item was
\* called; arg: the list sync_with_database was given.
NoOp == [op |-> "init", outcome |-> "returned", id |-> "", before |-> <<>>, arg |-> <<>>]

NoCall == [op |-> "none", enum |-> <<>>, top_k |-> 0, tenant_id |-> NoTenant]

\* No search is on its way back to a caller. search has no await in it, so
\* it runs between two operations on the matcher.
Quiet == call = NoCall /\ UNCHANGED <<call, results, match_rows>>

\* The process starts: VectorMatcher.__init__ builds a new matcher.
Restart ==
    /\ Quiet
    /\ LET m == LoadIndex
       IN  /\ index' = m.index
           /\ kb_items' = m.kb_items
           /\ id_to_index' = m.id_to_index
    /\ removed' = {}
    /\ last' = [NoOp EXCEPT !.op = "load"]
    /\ UNCHANGED <<fileIndex, fileKb, saveFailures>>

\* add_item(item_id, content, metadata): memory is updated, then saved.
AddItem(row, how) ==
    /\ Quiet
    /\ Len(kb_items) < MaxItems
    /\ Len(index) < MaxItems
    /\ LET idx == Append(index, Embed(row.content))
           items == Append(kb_items, row)
       IN  /\ index' = idx
           /\ kb_items' = items
           /\ id_to_index' = [k \in DOMAIN id_to_index \cup {row.id} |->
                                 IF k = row.id THEN Len(items) - 1 ELSE id_to_index[k]]
           /\ Save(idx, items, how)
    /\ removed' = removed \ {row.id}
    /\ last' = [NoOp EXCEPT !.op = "add", !.outcome = Outcome(how), !.id = row.id]

\* The list comprehension of remove_item.
WithoutId(items, id) == SelectSeq(items, LAMBDA it : it.id # id)

\* _rebuild_index up to its save: _create_empty_index runs first and resets
\* kb_items too, so the test "not self.kb_items" is always true and the
\* function saves the empty state and returns.
RebuildIndex(items) ==
    LET m == CreateEmptyIndex
    IN  IF m.kb_items = <<>>
        THEN m
        ELSE [index |-> [i \in DOMAIN m.kb_items |-> Embed(m.kb_items[i].content)],
              kb_items |-> m.kb_items,
              id_to_index |-> IdMap(m.kb_items)]

\* remove_item that rebuilds the index over the unfiltered list.
RemoveItemKeepsAll(id, how) ==
    /\ Quiet
    /\ id \in DOMAIN id_to_index
    /\ index' = [i \in DOMAIN kb_items |-> Embed(kb_items[i].content)]
    /\ id_to_index' = IdMap(kb_items)
    /\ Save(index', kb_items, how)
    /\ removed' = IF how = "ok" THEN removed \cup {id} ELSE removed
    /\ last' = [NoOp EXCEPT !.op = "remove", !.outcome = Outcome(how), !.id = id,
                            !.before = kb_items]
    /\ UNCHANGED kb_items

\* remove_item(item_id) on a matcher that knows the id.
RemoveItem(id, how) ==
    /\ Quiet
    /\ id \in DOMAIN id_to_index
    /\ LET m == RebuildIndex(WithoutId(kb_items, id))
       IN  /\ index' = m.index
           /\ kb_items' = m.kb_items
           /\ id_to_index' = m.id_to_index
           /\ Save(m.index, m.kb_items, how)
    /\ removed' = IF how = "ok" THEN removed \cup {id} ELSE removed
    /\ last' = [NoOp EXCEPT !.op = "remove", !.outcome = Outcome(how), !.id = id,
                            !.before = kb_items]

\* remove_item(item_id) on a matcher that does not know the id: early return.
RemoveUnknown(id) ==
    /\ Quiet
    /\ id \notin DOMAIN id_to_index
    /\ removed' = removed \cup {id}
    /\ last' = [NoOp EXCEPT !.op = "remove", !.id = id, !.before = kb_items]
    /\ UNCHANGED <<index, kb_items, id_to_index, fileIndex, fileKb, saveFailures>>

\* Item lists POST /api/knowledge-base/sync reads from the table: the active
\* rows, each id once.
SyncLists ==
    {<<>>} \cup {<<r>> : r \in {x \in KBRows : x.id = "a"}}
           \cup {p \in KBRows \X KBRows : p[1].id = "b" /\ p[2].id = "c"}

\* sync_with_database(kb_items).
SyncWithDatabase(items, how) ==
    /\ Quiet
    /\ LET m == RebuildIndex(items)
       IN  /\ index' = m.index
           /\ kb_items' = m.kb_items
           /\ id_to_index' = m.id_to_index
           /\ Save(m.index, m.kb_items, how)
    /\ removed' = removed
    /\ last' = [NoOp EXCEPT !.op = "sync", !.outcome = Outcome(how), !.arg = items]

Min(x, y) == IF x <= y THEN x ELSE y

\* search_k = min(top_k * 10 if tenant_id else top_k, self.index.ntotal)
SearchK(top_k, tenant_id, ntotal) ==
    Min(IF tenant_id # NoTenant THEN top_k * 10 ELSE top_k, ntotal)

\* index.search(query_embedding, k): the positions of the k vectors with the
\* largest inner product, best first. The order among equal scores is the
\* library's choice, so every admissible order is a possible answer.
IndexSearch(idx, qv, k) ==
    {h \in [1..k -> DOMAIN idx] :
        /\ \A i, j \in 1..k : i < j =>
              /\ h[i] # h[j]
              /\ InnerProduct(qv, idx[h[i]]) >= InnerProduct(qv, idx[h[j]])
        /\ \A p \in DOMAIN idx :
              (\A i \in 1..k : h[i] # p) =>
                  \A i \in 1..k : InnerProduct(qv, idx[p]) <= InnerProduct(qv, idx[h[i]])}

\* The first test of the loop body: the hit is dropped without a look at the item.
OutOfRangeOrLow(items, pos, score, min_score) ==
    pos > Len(items) \/ score < min_score

\* The tenant test of the loop body.
OtherTenant(item, tenant_id) ==
    /\ tenant_id # NoTenant
    /\ item.tenant_id # NoTenant
    /\ item.tenant_id # tenant_id

\* The rank taken from the loop counter of enumerate instead.
RankFromEnumerate(res, n) == n

\* rank=len(results) + 1; n is the 1-based position of the hit in the raw answer.
Rank(res, n) == Len(res) + 1

\* The loop of search over the raw hits from position n on. acc.results is the
\* list built so far, acc.enum the raw position of each accepted hit.
RECURSIVE SearchLoop(_, _, _, _, _, _, _, _)
SearchLoop(items, idx, qv, h, n, acc, top_k, filter) ==
    IF n > Len(h) THEN acc
    ELSE LET score == InnerProduct(qv, idx[h[n]])
         IN  IF OutOfRangeOrLow(items, h[n], score, filter.min_score)
             THEN SearchLoop(items, idx, qv, h, n + 1, acc, top_k, filter)
             ELSE IF OtherTenant(items[h[n]], filter.tenant_id)
             THEN SearchLoop(items, idx, qv, h, n + 1, acc, top_k, filter)
             ELSE LET m == [kb_item_id |-> items[h[n]].id,
                            content |-> items[h[n]].content,
                            score |-> score,
                            rank |-> Rank(acc.results, n)]
                      next == [results |-> Append(acc.results, m),
                               enum |-> Append(acc.enum, n)]
                  IN  IF Len(next.results) >= top_k THEN next
                      ELSE SearchLoop(items, idx, qv, h, n + 1, next, top_k, filter)

\* The answers search(query, top_k, min_score, tenant_id) can give.
SearchAnswers(query, top_k, min_score, tenant_id) ==
    IF Len(index) = 0 THEN {[results |-> <<>>, enum |-> <<>>]}
    ELSE {SearchLoop(kb_items, index, Embed(query), h, 1,
                     [results |-> <<>>, enum |-> <<>>], top_k,
                     [min_score |-> min_score, tenant_id |-> tenant_id]) :
             h \in IndexSearch(index, Embed(query),
                               SearchK(top_k, tenant_id, Len(index)))}

\* A caller that passes its tenant searches the knowledge base.
Search(query, top_k, min_score, tenant_id) ==
    /\ call = NoCall
    /\ \E a \in SearchAnswers(query, top_k, min_score, tenant_id) :
          /\ results' = a.results
          /\ call' = [op |-> "search", enum |-> a.enum, top_k |-> top_k,
                      tenant_id |-> tenant_id]
    /\ match_rows' = {}
    /\ UNCHANGED <<index, kb_items, id_to_index, fileIndex, fileKb, saveFailures, removed,
                   last>>

\* match_requirements(requirements, top_k=3, tenant_id=None): its default top_k.
MatchTopK == 3

\* process_document stores result.get('matches', [])[:3].
StoredMatches == 3

\* The matching step of process_document for one requirement of a document
\* owned by tenant `owner`: match_requirements is called with the requirement
\* texts only, and the first matches are inserted into match_results.
PipelineMatch(owner, text) ==
    /\ call = NoCall
    /\ \E a \in SearchAnswers(text, MatchTopK, 0, NoTenant) :
          /\ results' = a.results
          /\ match_rows' = {[owner |-> owner,
                             kb_item_id |-> a.results[i].kb_item_id,
                             rank |-> a.results[i].rank] :
                               i \in 1..Min(StoredMatches, Len(a.results))}
          /\ call' = [op |-> "pipeline_match", enum |-> a.enum, top_k |-> MatchTopK,
                      tenant_id |-> NoTenant]
    /\ UNCHANGED <<index, kb_items, id_to_index, fileIndex, fileKb, saveFailures, removed,
                   last>>

\* search / the matching step returns: the caller has its answer.
Return ==
    /\ call # NoCall
    /\ call' = NoCall
    /\ results' = <<>>
    /\ match_rows' = {}
    /\ UNCHANGED <<index, kb_items, id_to_index, fileIndex, fileKb, saveFailures, removed,
                   last>>

InitMatcher ==
    /\ index = <<>>
    /\ kb_items = <<>>
    /\ id_to_index = EmptyMap
    /\ fileIndex = [state |-> "absent", data |-> <<>>]
    /\ fileKb = [state |-> "absent", data |-> <<>>]
    /\ call = NoCall
    /\ results = <<>>
    /\ match_rows = {}
    /\ saveFailures = 0
    /\ removed = {}
    /\ last = NoOp

(***************************************************************************)
(* Response composer: compose, _refine_for_tender, _humanize               *)
(*                                                                         *)
(* A text is modelled by its length in characters. The language model and  *)
(* the rule chain of humanize_text are outside the model: the length and   *)
(* the detector score they produce are chosen from small sets.             *)
(***************************************************************************)

cvars == <<c_pc, c_in, c_attempt, c_requests, c_current, c_scores, c_resp, c_via>>

\* settings.max_ai_percentage
max_ai_percentage == 30

\* for attempt in range(10)
RefineAttempts == 10

\* len() of the fixed text of _generate_minimal_response
MinimalTextLen == 87

\* Scores calculate_ai_score gives a text of five words or more.
ScoreValues == {0, 15, 30, 45, 60}

\* What langdetect says of the content: English, or another language.
Langs == {"en", "hi"}

\* new_score humanize_text reports for a text the language model rewrote.
MultilingualScore == 15

\* By how many characters the rule chain of _humanize changes a text.
HumanizeDeltas == {-5, 0, 5}

\* Length of the text the language model answers with ("" included).
LLMLens == {0, 40}

\* Length of the excerpt _extract_relevant_content returns.
RelevantLens == {10, 25, 40}

\* Length of the text _compose_kb_only builds.
KbOnlyLens == {15, 50}

\* What compose is given: no match, a top match at or under the relevance
\* threshold of _select_kb_content, or a top match above it.
MatchKinds == {"none", "low", "good"}

ProvenanceItem(start, end, source, kb_item_id) ==
    [start |-> start, end |-> end, source |-> source, kb_item_id |-> kb_item_id]

ComposedResponse(text, provenance, kb, ai) ==
    [text |-> text, provenance |-> provenance, kb_percentage |-> kb, ai_percentage |-> ai]

\* A minimal response attributed to the knowledge base.
GenerateMinimalResponseFromKb ==
    ComposedResponse(MinimalTextLen,
                     <<ProvenanceItem(0, MinimalTextLen, "KNOWLEDGE_BASE", "")>>, 100, 0)

\* _generate_minimal_response
GenerateMinimalResponse ==
    ComposedResponse(MinimalTextLen,
                     <<ProvenanceItem(0, MinimalTextLen, "AI_GENERATED", "")>>, 0, 100)

\* The English pipeline of humanize_text: the rule chain, then the detector.
\* Under five words the detector returns 0.
RuleOutcomes(text) ==
    IF text = 0 THEN {[text |-> 0, new_score |-> 0, via |-> "rules"]}
    ELSE {[text |-> text + d, new_score |-> sc, via |-> "rules"] :
             d \in HumanizeDeltas, sc \in ScoreValues}

\* The multilingual branch of humanize_text, taken when the text is not
\* English: a chat-completion request. Answered 200, its text is returned
\* with the fixed score; an exception returns the text unchanged with its
\* original score; any other status falls through to the English pipeline.
MultilingualOutcomes(text) ==
    {[text |-> l, new_score |-> MultilingualScore, via |-> "llm"] : l \in LLMLens \ {0}}
        \cup {[text |-> text, new_score |-> sc, via |-> "original"] : sc \in ScoreValues}

\* What humanize_text can return for a text: the new text, new_score, and
\* the branch that produced them. The language of an empty text cannot be
\* detected and counts as English. Without an API key the request of the
\* multilingual branch is not answered 200.
HumanizeOutcomes(text, lang, api_key) ==
    IF lang = "en" \/ text = 0 THEN RuleOutcomes(text)
    ELSE RuleOutcomes(text)
            \cup {h \in MultilingualOutcomes(text) : h.via = "llm" => api_key}

\* _humanize(composed) when humanize_text returned h: the text and the score
\* are replaced, provenance and kb_percentage are carried over.
Humanize(composed, h) ==
    ComposedResponse(h.text, composed.provenance, composed.kb_percentage, h.new_score)

\* compose, after refinement gave nothing: the excerpt itself when it has 20
\* characters or more, else the text of _compose_kb_only.
FallbackComposed(relevant, kb_only) ==
    IF relevant >= 20
    THEN ComposedResponse(relevant, <<ProvenanceItem(0, relevant, "KNOWLEDGE_BASE", "kb")>>,
                          100, 0)
    ELSE ComposedResponse(kb_only, <<ProvenanceItem(0, kb_only, "KNOWLEDGE_BASE", "kb")>>,
                          100, 0)

\* The temporary response _refine_for_tender builds around the model's text.
TempComposed(raw) ==
    ComposedResponse(raw, <<ProvenanceItem(0, raw, "KNOWLEDGE_BASE", "")>>, 50, 100)

\* compose returns r.
ComposeReturns(r) ==
    /\ c_resp' = <<r>>
    /\ c_pc' = "done"

\* compose falls back to the text taken from the knowledge base and returns
\* it humanized.
ComposeFallback(in) ==
    \E h \in HumanizeOutcomes(FallbackComposed(in.relevant, in.kb_only).text, in.lang,
                              in.api_key) :
        /\ ComposeReturns(Humanize(FallbackComposed(in.relevant, in.kb_only), h))
        /\ c_via' = [path |-> "fallback", humanize |-> h.via]

\* compose is not running.
NoInput == [kind |-> "none", relevant |-> 0, kb_only |-> 0, lang |-> "en", api_key |-> FALSE]

\* No response has been built.
NoVia == [path |-> "none", humanize |-> "none"]

\* The ceiling test with < in place of <=.
AcceptableStrict(ai_pct) == ai_pct < max_ai_percentage

\* if ai_pct <= self.max_ai_percentage: the candidate is used at once.
Acceptable(ai_pct) == ai_pct <= max_ai_percentage

\* compose(requirement, matches, ...) is called and runs to its first await
\* of the language model, or to its return.
Compose(kind, relevant, kb_only, lang, api_key) ==
    /\ c_pc = "idle"
    /\ c_in' = [kind |-> kind, relevant |-> relevant, kb_only |-> kb_only,
                lang |-> lang, api_key |-> api_key]
    /\ c_attempt' = 0
    /\ c_requests' = 0
    /\ c_current' = <<>>
    /\ c_scores' = <<>>
    /\ IF kind # "good"
       THEN /\ ComposeReturns(GenerateMinimalResponse)
            /\ c_via' = [path |-> "minimal", humanize |-> "none"]
       ELSE IF relevant >= 30 /\ api_key
       THEN c_pc' = "refine" /\ c_resp' = <<>> /\ c_via' = NoVia
       ELSE ComposeFallback([relevant |-> relevant, kb_only |-> kb_only, lang |-> lang,
                             api_key |-> api_key])

\* One pass of the attempt loop whose request is answered 200 with a text of
\* length raw.
RefineAnswered(raw) ==
    /\ c_pc = "refine"
    /\ c_requests' = c_requests + 1
    /\ \E h \in HumanizeOutcomes(raw, c_in.lang, c_in.api_key) :
          LET humanized == Humanize(TempComposed(raw), h)
          IN  /\ c_current' = <<humanized.text>>
              /\ c_scores' = Append(c_scores, humanized.ai_percentage)
              /\ IF Acceptable(humanized.ai_percentage)
                 THEN /\ ComposeReturns(humanized)
                      /\ c_via' = [path |-> "refined", humanize |-> h.via]
                      /\ UNCHANGED c_attempt
                 ELSE IF c_attempt + 1 < RefineAttempts
                 THEN c_attempt' = c_attempt + 1 /\ UNCHANGED <<c_pc, c_resp, c_via>>
                 ELSE c_attempt' = c_attempt + 1 /\ ComposeFallback(c_in)
    /\ UNCHANGED c_in

\* One pass of the attempt loop whose request fails: a status other than 200
\* breaks the loop, an exception (timeout, malformed body) is caught outside
\* it; either way _refine_for_tender returns None.
RefineFailed(how) ==
    /\ c_pc = "refine"
    /\ how \in {"status", "exception"}
    /\ c_requests' = c_requests + 1
    /\ ComposeFallback(c_in)
    /\ UNCHANGED <<c_in, c_attempt, c_current, c_scores>>

\* The caller has the response and the locals of the call are gone; the
\* composer is free for the next call.
ComposeDone ==
    /\ c_pc = "done"
    /\ c_pc' = "idle"
    /\ c_in' = NoInput
    /\ c_attempt' = 0
    /\ c_requests' = 0
    /\ c_current' = <<>>
    /\ c_scores' = <<>>
    /\ c_resp' = <<>>
    /\ c_via' = NoVia

InitComposer ==
    /\ c_pc = "idle"
    /\ c_in = NoInput
    /\ c_attempt = 0
    /\ c_requests = 0
    /\ c_current = <<>>
    /\ c_scores = <<>>
    /\ c_resp = <<>>
    /\ c_via = NoVia

(***************************************************************************)
(* Document parser: parse, _parse_pdf, _ocr_pdf, _parse_docx               *)
(*                                                                         *)
(* A text is modelled by its length; the bytes by what the libraries find  *)
(* in them.                                                                *)
(***************************************************************************)

xvars == <<x_pc, x_in, x_read, x_out>>

\* Declared file types a document row can carry.
FileTypes == {"PDF", "pdf", "DOCX", "docx", "DOC", "doc", "TXT", "txt", "XLSX", "UNKNOWN"}

\* str.upper()
Upper(t) ==
    CASE t \in {"PDF", "pdf"}   -> "PDF"
      [] t \in {"DOCX", "docx"} -> "DOCX"
      [] t \in {"DOC", "doc"}   -> "DOC"
      [] t \in {"TXT", "txt"}   -> "TXT"
      [] OTHER                  -> t

\* self.min_text_length
min_text_length == 100

\* The second threshold of _parse_pdf, used when the file has images.
ImageTextLength == 500

\* len() of the text a page gets when its OCR call raises.
OcrFailedLen == 49

\* Length of the stripped text direct extraction finds.
DirectLens == {0, 50, 200, 600}

\* Whitespace around the text direct extraction finds (the "\n\n" joints of
\* empty pages).
PadLens == {0, 2}

\* Length of the text a successful OCR pass finds.
OcrLens == {0, 300}

\* What the bytes hold: whether the handler's library can open them, the
\* text and page count of direct extraction, whether the file has images,
\* and whether pytesseract could be imported (OCR_AVAILABLE).
Contents ==
    [valid : BOOLEAN, text : DirectLens, pad : PadLens, pages : {1, 2},
     images : BOOLEAN, ocr_available : BOOLEAN]

\* The branch of parse a declared type takes.
Handler(file_type) ==
    CASE Upper(file_type) = "PDF"            -> "pdf"
      [] Upper(file_type) \in {"DOCX", "DOC"} -> "docx"
      [] OTHER                               -> "unsupported"

Raised(error) ==
    [kind |-> "raised", error |-> error, raw_text |-> 0, pages |-> 0, method |-> ""]

\* ParsedDocument(raw_text, pages, tables, metadata), with the fields the
\* pipeline reads.
ParsedDocument(raw_text, pages, method) ==
    [kind |-> "returned", error |-> "", raw_text |-> raw_text, pages |-> pages,
     method |-> method]

\* if (text_length < self.min_text_length or (has_images and text_length < 500))
\*    and OCR_AVAILABLE
OcrTriggered(c) ==
    /\ c.text < min_text_length \/ (c.images /\ c.text < ImageTextLength)
    /\ c.ocr_available

\* The end of _parse_pdf: "method" compares the final raw_text with the
\* stripped length of the direct text.
PdfResult(raw_text, pages, text_length) ==
    ParsedDocument(raw_text, pages, IF raw_text > text_length THEN "OCR" ELSE "Direct")

\* _parse_docx on bytes python-docx can open: the text of the images is
\* appended when the text is short and OCR found some.
DocxResult(c, ocr_text) ==
    IF c.text < min_text_length /\ c.ocr_available /\ c.images /\ ocr_text > 0
    THEN ParsedDocument(c.text + c.pad + 2 + ocr_text, 1, "OCR")
    ELSE ParsedDocument(c.text + c.pad, 1, "Direct")

\* parse(file_content, file_type) up to its return or to the call of _ocr_pdf.
ParseCall(file_type, c) ==
    /\ x_pc = "idle"
    /\ x_in' = [file_type |-> file_type, content |-> c]
    /\ x_read' = (Handler(file_type) # "unsupported")
    /\ CASE Handler(file_type) = "unsupported" ->
                /\ x_out' = <<Raised("ValueError: Unsupported file type")>>
                /\ x_pc' = "done"
         [] Handler(file_type) = "pdf" ->
                IF ~c.valid
                THEN x_out' = <<Raised("pdfplumber")>> /\ x_pc' = "done"
                ELSE IF OcrTriggered(c)
                THEN x_out' = <<>> /\ x_pc' = "ocr"
                ELSE /\ x_out' = <<PdfResult(c.text + c.pad, c.pages, c.text)>>
                     /\ x_pc' = "done"
         [] Handler(file_type) = "docx" ->
                /\ x_pc' = "done"
                /\ IF ~c.valid
                   THEN x_out' = <<Raised("python-docx")>>
                   ELSE \E ocr_text \in OcrLens : x_out' = <<DocxResult(c, ocr_text)>>

\* How _ocr_pdf can end: the pass as a whole raises and ("", []) is returned;
\* every page's OCR call raises and each page gets the failure text; or the
\* pages are read.
OcrOutcomes(c) ==
    {[raw_text |-> 0, pages |-> 0]}
        \cup {[raw_text |-> c.pages * OcrFailedLen + 2 * (c.pages - 1), pages |-> c.pages]}
        \cup {[raw_text |-> l, pages |-> c.pages] : l \in OcrLens}

\* _ocr_pdf returns and _parse_pdf takes its text and pages.
OcrFinish(o) ==
    /\ x_pc = "ocr"
    /\ o \in OcrOutcomes(x_in.content)
    /\ x_out' = <<PdfResult(o.raw_text, o.pages, x_in.content.text)>>
    /\ x_pc' = "done"
    /\ UNCHANGED <<x_in, x_read>>

NoParse == [file_type |-> "", content |-> [valid |-> FALSE, text |-> 0, pad |-> 0,
                                           pages |-> 1, images |-> FALSE,
                                           ocr_available |-> FALSE]]

\* The caller has the result of parse.
ParseReturn ==
    /\ x_pc = "done"
    /\ x_pc' = "idle"
    /\ x_in' = NoParse
    /\ x_read' = FALSE
    /\ x_out' = <<>>

InitParser ==
    /\ x_pc = "idle"
    /\ x_in = NoParse
    /\ x_read = FALSE
    /\ x_out = <<>>

(***************************************************************************)
(* Requirement extractor: extract, _extract_llm, _categorize               *)
(***************************************************************************)

evars == <<e_pc, e_in, e_out, e_requests>>

kvars == <<k_scores, k_result>>

\* Largest number of sentences in a document of the model.
MaxSentences == 2

\* Largest number of items in an answer of the language model.
MaxLLMItems == 2

\* Largest hit count of one category in a call of _categorize.
MaxHits == 4

\* if order >= 50: break
MaxRequirements == 50

\* The confidence _extract_llm gives every item, in hundredths.
LLMConfidence == 95

Categories == <<"ELIGIBILITY", "TECHNICAL", "COMPLIANCE">>

Scores(e, t, c) == [ELIGIBILITY |-> e, TECHNICAL |-> t, COMPLIANCE |-> c]

Max3(a, b, c) ==
    IF a >= b /\ a >= c THEN a ELSE IF b >= c THEN b ELSE c

\* max(scores, key=scores.get): the first key, in insertion order, whose
\* value is the highest.
ArgMax(scores) ==
    LET m == Max3(scores.ELIGIBILITY, scores.TECHNICAL, scores.COMPLIANCE)
    IN  Categories[CHOOSE i \in 1..3 :
                      /\ scores[Categories[i]] = m
                      /\ \A j \in 1..(i - 1) : scores[Categories[j]] # m]

\* _categorize from the hit counts on: the category and the confidence in
\* hundredths.
Categorize(scores) ==
    LET m == Max3(scores.ELIGIBILITY, scores.TECHNICAL, scores.COMPLIANCE)
        total == scores.ELIGIBILITY + scores.TECHNICAL + scores.COMPLIANCE
    IN  IF m = 0 THEN [category |-> "TECHNICAL", confidence |-> 50]
        ELSE [category |-> ArgMax(scores),
              confidence |-> Min((100 * m) \div total, 99)]

\* _categorize is called on a sentence with these hit counts.
CategorizeCall(e, t, c) ==
    /\ k_result = <<>>
    /\ k_scores' = Scores(e, t, c)
    /\ k_result' = <<Categorize(Scores(e, t, c))>>

\* The caller has the tuple.
CategorizeReturn ==
    /\ k_result # <<>>
    /\ k_scores' = Scores(0, 0, 0)
    /\ k_result' = <<>>

\* Sentences _split_sentences can produce: the text, whether it has 20
\* characters or more, whether _is_requirement accepts it, and the hit counts
\* of its patterns. "The bidder ..." and "THE BIDDER ..." differ in case only.
SentencePool == {
    [text |-> "The bidder must be registered", long |-> TRUE,  req |-> TRUE,
     scores |-> Scores(1, 0, 0)],
    [text |-> "THE BIDDER MUST BE REGISTERED", long |-> TRUE,  req |-> TRUE,
     scores |-> Scores(1, 0, 0)],
    [text |-> "The system shall provide logs", long |-> TRUE,  req |-> TRUE,
     scores |-> Scores(0, 1, 1)],
    [text |-> "Must comply",                   long |-> FALSE, req |-> TRUE,
     scores |-> Scores(0, 0, 1)],
    [text |-> "This tender is issued by us",   long |-> TRUE,  req |-> FALSE,
     scores |-> Scores(0, 0, 0)] }

\* str.lower()
Lower(text) ==
    CASE text = "THE BIDDER MUST BE REGISTERED" -> "the bidder must be registered"
      [] text = "The bidder must be registered" -> "the bidder must be registered"
      [] text = "The system shall provide logs" -> "the system shall provide logs"
      [] text = "Must comply"                   -> "must comply"
      [] text = "This tender is issued by us"   -> "this tender is issued by us"
      [] OTHER                                  -> text

SeqsUpTo(S, n) == UNION {[1..k -> S] : k \in 0..n}

\* A document of n sentences that are all requirements and all different.
LongDocument(n) ==
    [i \in 1..n |-> [text |-> "Requirement " \o ToString(i) \o " shall be met",
                     long |-> TRUE, req |-> TRUE, scores |-> Scores(0, 1, 0)]]

\* The sentence lists of the documents of the model: the short ones, and
\* long ones around the ceiling of the loop.
Documents ==
    SeqsUpTo(SentencePool, MaxSentences)
        \cup {LongDocument(n) : n \in {MaxRequirements, MaxRequirements + 1}}

\* Items of the JSON list the language model answers with: item.get("text", "")
\* and item.get("category", "TECHNICAL").
LLMItemPool == {
    [text |-> "",                              category |-> "TECHNICAL"],
    [text |-> "The bidder must be registered", category |-> "ELIGIBILITY"],
    [text |-> "THE BIDDER MUST BE REGISTERED", category |-> "ELIGIBILITY"],
    [text |-> "The system shall provide logs", category |-> "TECHNICAL"] }

\* An answer of n items with different texts.
LongAnswer(n) ==
    [i \in 1..n |-> [text |-> "Requirement " \o ToString(i) \o " shall be met",
                     category |-> "TECHNICAL"]]

\* The lists the language model answers with: the short ones, and long ones
\* around the ceiling of the rule-based loop.
LLMAnswers ==
    SeqsUpTo(LLMItemPool, MaxLLMItems)
        \cup {LongAnswer(n) : n \in {MaxRequirements, MaxRequirements + 1}}

ExtractedRequirement(text, category, confidence, order) ==
    [text |-> text, category |-> category, confidence |-> confidence, order |-> order]

\* The loop of extract over the sentences from position n on.
RECURSIVE ExtractLoop(_, _, _, _)
ExtractLoop(sentences, n, requirements, seen_texts) ==
    IF n > Len(sentences) THEN requirements
    ELSE LET sentence == sentences[n]
             order == Len(requirements)
         IN  IF ~sentence.long \/ Lower(sentence.text) \in seen_texts
             THEN ExtractLoop(sentences, n + 1, requirements, seen_texts)
             ELSE IF ~sentence.req
             THEN ExtractLoop(sentences, n + 1, requirements, seen_texts)
             ELSE LET c == Categorize(sentence.scores)
                      next == Append(requirements,
                                     ExtractedRequirement(sentence.text, c.category,
                                                          c.confidence, order))
                  IN  IF order + 1 >= MaxRequirements THEN next
                      ELSE ExtractLoop(sentences, n + 1, next,
                                       seen_texts \cup {Lower(sentence.text)})

\* The loop of _extract_llm over the items from position n on; i = n - 1 is
\* the counter of enumerate.
RECURSIVE ExtractLLMLoop(_, _, _)
ExtractLLMLoop(items, n, extracted) ==
    IF n > Len(items) THEN extracted
    ELSE IF items[n].text = ""
    THEN ExtractLLMLoop(items, n + 1, extracted)
    ELSE ExtractLLMLoop(items, n + 1,
                        Append(extracted,
                               ExtractedRequirement(items[n].text, items[n].category,
                                                    LLMConfidence, n - 1)))

\* extract(text, pages) up to its return or to the request of _extract_llm.
Extract(sentences, lang, mistral_key) ==
    /\ e_pc = "idle"
    /\ e_in' = [sentences |-> sentences, lang |-> lang, mistral_key |-> mistral_key]
    /\ e_requests' = 0
    /\ IF lang # "en" /\ mistral_key
       THEN e_pc' = "llm" /\ e_out' = <<>>
       ELSE LET requirements == ExtractLoop(sentences, 1, <<>>, {})
            IN  IF requirements = <<>> /\ lang = "hi" /\ mistral_key
                THEN e_pc' = "llm" /\ e_out' = <<>>
                ELSE e_pc' = "done" /\ e_out' = requirements

\* The request of _extract_llm is answered 200 with a JSON list.
LLMExtracted(items) ==
    /\ e_pc = "llm"
    /\ e_out' = ExtractLLMLoop(items, 1, <<>>)
    /\ e_pc' = "done"
    /\ e_requests' = e_requests + 1
    /\ UNCHANGED e_in

\* The request fails, is answered with another status, or its body cannot be
\* read: _extract_llm returns [].
LLMExtractFailed ==
    /\ e_pc = "llm"
    /\ e_out' = <<>>
    /\ e_pc' = "done"
    /\ e_requests' = e_requests + 1
    /\ UNCHANGED e_in

NoDocument == [sentences |-> <<>>, lang |-> "en", mistral_key |-> FALSE]

\* The caller has the list.
ExtractReturn ==
    /\ e_pc = "done"
    /\ e_pc' = "idle"
    /\ e_in' = NoDocument
    /\ e_out' = <<>>
    /\ e_requests' = 0

InitExtractor ==
    /\ e_pc = "idle"
    /\ e_in = NoDocument
    /\ e_out = <<>>
    /\ e_requests = 0
    /\ k_scores = Scores(0, 0, 0)
    /\ k_result = <<>>

(***************************************************************************)
(* services/ai_detector.py and api/humanize.py: calculate_ai_score         *)
(***************************************************************************)

dvars == <<d_pc, d_in, d_out>>

\* The values scores['burstiness'], scores['lexical'], scores['formality'],
\* scores['starters'], scores['phrases'], scores['buzzwords'] and (in the
\* copy of api/humanize.py) scores['structure'] take on a text.
Signals ==
    [burstiness : {0, 20, 35}, lexical : {0, 25}, formality : {0, 40},
     starters : {0, 25}, phrases : {0, 35}, buzzwords : {0, 30}, structure : {0, 15}]

\* len(text.split())
WordCounts == {4, 25, 50, 100}

\* text.count(',')
CommaCounts == {0, 3, 5, 13}

\* The comma density check of api/humanize.py: density above 0.12 scores 10,
\* above 0.08 scores 5.
CommaScore(comma_count, word_count) ==
    IF comma_count * 100 > 12 * word_count THEN 10
    ELSE IF comma_count * 100 > 8 * word_count THEN 5
    ELSE 0

\* total_raw = sum(scores.values()) in services/ai_detector.py: six signals.
ServiceTotalRaw(s, comma_count, word_count) ==
    s.burstiness + s.lexical + s.formality + s.starters + s.phrases + s.buzzwords

\* total_raw = sum(scores.values()) in api/humanize.py: eight signals.
ApiTotalRaw(s, comma_count, word_count) ==
    s.burstiness + s.lexical + s.formality + s.starters + s.structure
        + s.phrases + s.buzzwords + CommaScore(comma_count, word_count)

\* The final score, in hundredths: total_raw scaled by the length of the text
\* and capped at 100.
FinalScore(total_raw, word_count) ==
    IF word_count < 50 THEN Min(total_raw * 80, 10000)
    ELSE IF word_count < 100 THEN Min(total_raw * 90, 10000)
    ELSE Min(total_raw * 100, 10000)

\* What calculate_ai_score computes: texts below five words score 0.
Scored(total_raw, word_count) ==
    IF word_count < 5
    THEN [raw |-> 0, score |-> 0]
    ELSE [raw |-> total_raw, score |-> FinalScore(total_raw, word_count)]

NoTexts == [detector |-> "", signals |-> <<>>, word_count |-> 0, commas |-> <<>>]

\* services/ai_detector.calculate_ai_score, the detector the composer
\* imports, on two texts that differ in their commas only.
ServiceDetect(s, word_count, a, b) ==
    /\ d_pc = "idle"
    /\ d_in' = [detector |-> "service", signals |-> s, word_count |-> word_count,
                commas |-> <<a, b>>]
    /\ d_out' = <<Scored(ServiceTotalRaw(s, a, word_count), word_count),
                  Scored(ServiceTotalRaw(s, b, word_count), word_count)>>
    /\ d_pc' = "done"

\* api/humanize.calculate_ai_score on the same two texts.
ApiDetect(s, word_count, a, b) ==
    /\ d_pc = "idle"
    /\ d_in' = [detector |-> "api", signals |-> s, word_count |-> word_count,
                commas |-> <<a, b>>]
    /\ d_out' = <<Scored(ApiTotalRaw(s, a, word_count), word_count),
                  Scored(ApiTotalRaw(s, b, word_count), word_count)>>
    /\ d_pc' = "done"

\* The caller has the scores.
DetectReturn ==
    /\ d_pc = "done"
    /\ d_pc' = "idle"
    /\ d_in' = NoTexts
    /\ d_out' = <<>>

InitDetector ==
    /\ d_pc = "idle"
    /\ d_in = NoTexts
    /\ d_out = <<>>

(***************************************************************************)
(* api/responses.py: the responses row of one requirement, and the         *)
(* match_results rows the generation reads                                 *)
(***************************************************************************)

rvars == <<match_results, response, g_matches>>

\* Largest number of match_results rows the model stores for the requirement.
MaxMatchRows == 3

\* Largest version the model lets the responses row reach.
MaxVersion == 3

\* The knowledge base items that can match the requirement, best first, and
\* the similarity (in percent) search gives each of them for this requirement.
SortedItems == <<"k1", "k2", "k3">>

ItemScore == [k \in {"k1", "k2", "k3"} |-> CASE k = "k1" -> 80 [] k = "k2" -> 50 [] OTHER -> 20]

\* What search returns when the items of S are indexed: the items of S by
\* falling score, ranked from 1.
Found(S) ==
    LET InS(k) == k \in S
        hits == SelectSeq(SortedItems, InS)
    IN  [i \in 1..Min(MatchTopK, Len(hits)) |->
            [kb_item_id |-> hits[i], score |-> ItemScore[hits[i]], rank |-> i]]

\* match_requirements: match_percentage is the score of the best match.
MatchPercentage(matches) ==
    IF matches = <<>> THEN 0 ELSE Min(matches[1].score, 100)

\* The rows process_document inserts into match_results for the requirement:
\* every row carries the requirement's match_percentage.
MatchRows(matches) ==
    [i \in 1..Min(StoredMatches, Len(matches)) |->
        [kb_item_id |-> matches[i].kb_item_id,
         match_percentage |-> MatchPercentage(matches),
         rank |-> matches[i].rank]]

\* The matching step of a process_document run stores the matches of the
\* requirement.
StoreMatches(S) ==
    /\ Len(match_results) + Len(MatchRows(Found(S))) <= MaxMatchRows
    /\ match_results' = match_results \o MatchRows(Found(S))
    /\ UNCHANGED <<response, g_matches>>

\* The orders in which a select without an order clause can return n rows.
RowOrders(n) == {p \in [1..n -> 1..n] : \A i, j \in 1..n : p[i] = p[j] => i = j}

\* MatchResult(kb_item_id, content, score=m['match_percentage'] / 100, rank)
MatchObject(m) ==
    [kb_item_id |-> m.kb_item_id, score |-> m.match_percentage, rank |-> m.rank]

NoResponse == [status |-> "<none>", response_text |-> "", version |-> 0]

\* The write of process_response_generation: an existing row gets the new
\* text and the next version, otherwise a DRAFT row of version 1 is inserted.
SaveComposed(row) ==
    IF row # NoResponse
    THEN [row EXCEPT !.response_text = "composed", !.version = @ + 1]
    ELSE [status |-> "DRAFT", response_text |-> "composed", version |-> 1]

\* generate_responses for the requirement and its background task: the rows
\* are read in the order the database returns them, compose is called, and
\* the composed text is saved.
Generate(order) ==
    /\ order \in RowOrders(Len(match_results))
    /\ response.version < MaxVersion
    /\ g_matches' = [i \in 1..Len(match_results) |-> MatchObject(match_results[order[i]])]
    /\ response' = SaveComposed(response)
    /\ UNCHANGED match_results

\* The same, with compose or the write raising: the except clause of the
\* loop logs and goes on to the next requirement.
GenerateFailed(order) ==
    /\ order \in RowOrders(Len(match_results))
    /\ g_matches' = [i \in 1..Len(match_results) |-> MatchObject(match_results[order[i]])]
    /\ UNCHANGED <<match_results, response>>

\* PUT /api/responses/{id}: refused with 400 unless the row is DRAFT or
\* PENDING_REVIEW; a text given replaces the text and raises the version.
UpdateResponse(has_text) ==
    /\ response # NoResponse
    /\ response.version < MaxVersion
    /\ IF response.status \notin {"DRAFT", "PENDING_REVIEW"}
       THEN UNCHANGED response
       ELSE IF has_text
       THEN response' = [response EXCEPT !.response_text = "edited", !.version = @ + 1]
       ELSE UNCHANGED response
    /\ UNCHANGED <<match_results, g_matches>>

\* POST /api/responses/{id}/submit: refused with 400 unless the row is DRAFT.
SubmitForReview ==
    /\ response # NoResponse
    /\ IF response.status # "DRAFT"
       THEN UNCHANGED response
       ELSE response' = [response EXCEPT !.status = "PENDING_REVIEW"]
    /\ UNCHANGED <<match_results, g_matches>>

\* POST /api/responses/{id}/approve: refused with 400 unless the row is DRAFT
\* or PENDING_REVIEW.
ApproveResponse ==
    /\ response # NoResponse
    /\ IF response.status \notin {"DRAFT", "PENDING_REVIEW"}
       THEN UNCHANGED response
       ELSE response' = [response EXCEPT !.status = "APPROVED"]
    /\ UNCHANGED <<match_results, g_matches>>

InitResponses ==
    /\ match_results = <<>>
    /\ response = NoResponse
    /\ g_matches = <<>>

(***************************************************************************)
(* services/matcher.py: search on a knowledge base of many tenants         *)
(***************************************************************************)

svars == <<s_pc, s_in, s_out>>

\* Largest number of items of another tenant in the knowledge base.
MaxOthers == 11

\* Largest number of items of the searching tenant, and of items without a
\* tenant, in the knowledge base.
MaxOwn == 2

\* The item list of a knowledge base with `others` items of tenant t2, whose
\* content is the query itself, followed by `own` items of tenant t1 and
\* `shared` items without a tenant, whose content is near the query.
LargeKb(others, own, shared) ==
    [i \in 1..(others + own + shared) |->
        IF i <= others
        THEN [id |-> i, content |-> "q", tenant_id |-> "t2"]
        ELSE IF i <= others + own
        THEN [id |-> i, content |-> "c1", tenant_id |-> "t1"]
        ELSE [id |-> i, content |-> "c1", tenant_id |-> NoTenant]]

\* The index built from an item list: the embedding of each content.
IndexOf(items) == [i \in DOMAIN items |-> Embed(items[i].content)]

\* index.search on an index whose vectors are stored by falling score: the
\* first k positions.
FirstHits(k) == [i \in 1..k |-> i]

\* The number of items of the list that tenant_id may see and that score at
\* least min_score for the query.
Eligible(items, query, min_score, tenant_id) ==
    Cardinality({i \in DOMAIN items :
                    /\ InnerProduct(Embed(query), Embed(items[i].content)) >= min_score
                    /\ ~OtherTenant(items[i], tenant_id)})

NoSearch == [items |-> <<>>, top_k |-> 0, min_score |-> 0, tenant_id |-> NoTenant]

\* search("q", top_k, min_score, tenant_id) on the knowledge base.
SearchLarge(items, top_k, min_score, tenant_id) ==
    /\ s_pc = "idle"
    /\ s_in' = [items |-> items, top_k |-> top_k, min_score |-> min_score,
                tenant_id |-> tenant_id]
    /\ s_out' = IF Len(items) = 0 THEN <<>>
                ELSE SearchLoop(items, IndexOf(items), Embed("q"),
                                FirstHits(SearchK(top_k, tenant_id, Len(items))), 1,
                                [results |-> <<>>, enum |-> <<>>], top_k,
                                [min_score |-> min_score, tenant_id |-> tenant_id]).results
    /\ s_pc' = "done"

\* The caller has the list.
SearchLargeReturn ==
    /\ s_pc = "done"
    /\ s_pc' = "idle"
    /\ s_in' = NoSearch
    /\ s_out' = <<>>

InitSearch ==
    /\ s_pc = "idle"
    /\ s_in = NoSearch
    /\ s_out = <<>>

vars == <<pvars, mvars, cvars, xvars, evars, kvars, dvars, rvars, svars>>

Init ==
    /\ InitPipeline /\ InitMatcher /\ InitComposer /\ InitParser /\ InitExtractor
    /\ InitDetector /\ InitResponses /\ InitSearch

PipelineStep ==
    \/ TriggerProcessing /\ UNCHANGED <<mvars, cvars, xvars, evars, kvars, dvars, rvars, svars>>
    \/ TriggerRefused /\ UNCHANGED <<mvars, cvars, xvars, evars, kvars, dvars, rvars, svars>>
    \/ \E w \in Workers : TaskStart(w) /\ UNCHANGED <<mvars, cvars, xvars, evars, kvars, dvars, rvars, svars>>
    \/ \E w \in Workers : StepOk(w) /\ UNCHANGED <<mvars, cvars, xvars, evars, kvars, dvars, rvars, svars>>
    \/ \E w \in Workers : StepRaise(w) /\ UNCHANGED <<mvars, cvars, xvars, evars, kvars, dvars, rvars, svars>>
    \/ \E w \in Workers : HandlerWrite(w) /\ UNCHANGED <<mvars, cvars, xvars, evars, kvars, dvars, rvars, svars>>
    \/ \E w \in Workers : HandlerWriteFails(w) /\ UNCHANGED <<mvars, cvars, xvars, evars, kvars, dvars, rvars, svars>>

MatcherStep ==
    \/ Restart /\ UNCHANGED <<pvars, cvars, xvars, evars, kvars, dvars, rvars, svars>>
    \/ \E row \in KBRows, how \in SaveOutcomes :
          AddItem(row, how) /\ UNCHANGED <<pvars, cvars, xvars, evars, kvars, dvars, rvars, svars>>
    \/ \E id \in KBIds, how \in SaveOutcomes :
          RemoveItem(id, how) /\ UNCHANGED <<pvars, cvars, xvars, evars, kvars, dvars, rvars, svars>>
    \/ \E id \in KBIds : RemoveUnknown(id) /\ UNCHANGED <<pvars, cvars, xvars, evars, kvars, dvars, rvars, svars>>
    \/ \E items \in SyncLists, how \in SaveOutcomes :
          SyncWithDatabase(items, how) /\ UNCHANGED <<pvars, cvars, xvars, evars, kvars, dvars, rvars, svars>>
    \/ \E q \in Queries, k \in 1..MaxTopK, ms \in MinScores, t \in Tenants \cup {NoTenant} :
          Search(q, k, ms, t) /\ UNCHANGED <<pvars, cvars, xvars, evars, kvars, dvars, rvars, svars>>
    \/ \E owner \in Tenants, q \in Queries :
          PipelineMatch(owner, q) /\ UNCHANGED <<pvars, cvars, xvars, evars, kvars, dvars, rvars, svars>>
    \/ Return /\ UNCHANGED <<pvars, cvars, xvars, evars, kvars, dvars, rvars, svars>>

ComposerStep ==
    \/ \E k \in MatchKinds, rl \in RelevantLens, kl \in KbOnlyLens, lang \in Langs,
          key \in BOOLEAN :
          Compose(k, rl, kl, lang, key) /\ UNCHANGED <<pvars, mvars, xvars, evars, kvars, dvars, rvars, svars>>
    \/ \E raw \in LLMLens : RefineAnswered(raw) /\ UNCHANGED <<pvars, mvars, xvars, evars, kvars, dvars, rvars, svars>>
    \/ \E how \in {"status", "exception"} : RefineFailed(how) /\ UNCHANGED <<pvars, mvars, xvars, evars, kvars, dvars, rvars, svars>>
    \/ ComposeDone /\ UNCHANGED <<pvars, mvars, xvars, evars, kvars, dvars, rvars, svars>>

ParserStep ==
    \/ \E t \in FileTypes, c \in Contents :
          ParseCall(t, c) /\ UNCHANGED <<pvars, mvars, cvars, evars, kvars, dvars, rvars, svars>>
    \/ \E o \in OcrOutcomes(x_in.content) :
          OcrFinish(o) /\ UNCHANGED <<pvars, mvars, cvars, evars, kvars, dvars, rvars, svars>>
    \/ ParseReturn /\ UNCHANGED <<pvars, mvars, cvars, evars, kvars, dvars, rvars, svars>>

ExtractorStep ==
    \/ \E d \in Documents, lang \in Langs, key \in BOOLEAN :
          Extract(d, lang, key) /\ UNCHANGED <<pvars, mvars, cvars, xvars, kvars, dvars, rvars, svars>>
    \/ \E items \in LLMAnswers :
          LLMExtracted(items) /\ UNCHANGED <<pvars, mvars, cvars, xvars, kvars, dvars, rvars, svars>>
    \/ LLMExtractFailed /\ UNCHANGED <<pvars, mvars, cvars, xvars, kvars, dvars, rvars, svars>>
    \/ ExtractReturn /\ UNCHANGED <<pvars, mvars, cvars, xvars, kvars, dvars, rvars, svars>>

CategorizeStep ==
    \/ \E e \in 0..MaxHits, t \in 0..MaxHits, c \in 0..MaxHits :
          CategorizeCall(e, t, c) /\ UNCHANGED <<pvars, mvars, cvars, xvars, evars, dvars, rvars, svars>>
    \/ CategorizeReturn /\ UNCHANGED <<pvars, mvars, cvars, xvars, evars, dvars, rvars, svars>>

SpecPipeline == Init /\ [][PipelineStep]_vars

SpecMatcher == Init /\ [][MatcherStep]_vars

SpecComposer == Init /\ [][ComposerStep]_vars

SpecParser == Init /\ [][ParserStep]_vars

SpecExtractor == Init /\ [][ExtractorStep]_vars

DetectorStep ==
    \/ /\ d_pc = "idle"
       /\ \E s \in Signals, n \in WordCounts, a \in CommaCounts, b \in CommaCounts :
             ServiceDetect(s, n, a, b)
       /\ UNCHANGED <<pvars, mvars, cvars, xvars, evars, kvars, rvars, svars>>
    \/ /\ d_pc = "idle"
       /\ \E s \in Signals, n \in WordCounts, a \in CommaCounts, b \in CommaCounts :
             ApiDetect(s, n, a, b)
       /\ UNCHANGED <<pvars, mvars, cvars, xvars, evars, kvars, rvars, svars>>
    \/ DetectReturn /\ UNCHANGED <<pvars, mvars, cvars, xvars, evars, kvars, rvars, svars>>

ResponsesStep ==
    \/ \E S \in SUBSET {"k1", "k2", "k3"} :
          StoreMatches(S) /\ UNCHANGED <<pvars, mvars, cvars, xvars, evars, kvars, dvars, svars>>
    \/ \E order \in RowOrders(Len(match_results)) :
          Generate(order) /\ UNCHANGED <<pvars, mvars, cvars, xvars, evars, kvars, dvars, svars>>
    \/ \E order \in RowOrders(Len(match_results)) :
          GenerateFailed(order) /\ UNCHANGED <<pvars, mvars, cvars, xvars, evars, kvars, dvars, svars>>
    \/ \E has_text \in BOOLEAN :
          UpdateResponse(has_text) /\ UNCHANGED <<pvars, mvars, cvars, xvars, evars, kvars, dvars, svars>>
    \/ SubmitForReview /\ UNCHANGED <<pvars, mvars, cvars, xvars, evars, kvars, dvars, svars>>
    \/ ApproveResponse /\ UNCHANGED <<pvars, mvars, cvars, xvars, evars, kvars, dvars, svars>>

SearchStep ==
    \/ /\ s_pc = "idle"
       /\ \E others \in 0..MaxOthers, own \in 0..MaxOwn, shared \in 0..MaxOwn,
             top_k \in 1..MaxTopK, min_score \in MinScores,
             tenant_id \in {"t1", NoTenant} :
             SearchLarge(LargeKb(others, own, shared), top_k, min_score, tenant_id)
       /\ UNCHANGED <<pvars, mvars, cvars, xvars, evars, kvars, dvars, rvars>>
    \/ SearchLargeReturn /\ UNCHANGED <<pvars, mvars, cvars, xvars, evars, kvars, dvars, rvars>>

SpecCategorize == Init /\ [][CategorizeStep]_vars

SpecSearch == Init /\ [][SearchStep]_vars

SpecResponses == Init /\ [][ResponsesStep]_vars

SpecDetector == Init /\ [][DetectorStep]_vars

(***************************************************************************)
(* Properties                                                              *)
(***************************************************************************)

Last(seq) == seq[Len(seq)]

\* The statuses one run wrote, in order: each is a status of the vocabulary,
\* nothing follows READY or ERROR, and apart from ERROR no status is earlier
\* in StatusOrder than one written before it.
WritesOrdered(ws) ==
    /\ \A i \in DOMAIN ws :
          ws[i].status \in {"PARSING", "EXTRACTING", "MATCHING", "READY", "ERROR"}
    /\ \A i, j \in DOMAIN ws : i < j =>
          /\ ws[i].status \notin {"READY", "ERROR"}
          /\ ws[j].status # "ERROR" =>
                StatusRank(ws[i].status) <= StatusRank(ws[j].status)

\* C1: in every run of process_document the statuses written never move
\* backward along UPLOADED < PARSING < EXTRACTING < MATCHING < READY, the
\* only other status written is ERROR, and the run writes nothing after
\* READY or ERROR.
C1_StatusMonotonic == \A w \in Workers : WritesOrdered(writes[w])

\* A run that wrote every status up to MATCHING 90 and then ERROR.
C1_Witness ==
    \E w \in Workers :
        /\ pc[w] = "raised"
        /\ Len(writes[w]) = 7
        /\ writes[w][6].status = "MATCHING"
        /\ writes[w][7].status = "ERROR"

\* C2: at most one run of process_document on the document is in progress
\* at any time.
C2_OneRunInProgress == Cardinality({w \in Workers : Running(w)}) <= 1

\* C3: a run in which a step raised has, as its last write, status ERROR
\* with progress 0 and an error_message (the text of the exception).
C3_FailedRunWritesError ==
    \A w \in Workers :
        pc[w] = "raised" =>
            /\ writes[w] # <<>>
            /\ Last(writes[w]).status = "ERROR"
            /\ Last(writes[w]).processing_progress = 0
            /\ Last(writes[w]).error_message # Absent
            /\ Last(writes[w]).error_message = exc[w]

\* Position k of the index holds the embedding of kb_items[k], and the two
\* have the same length.
Aligned ==
    /\ Len(index) = Len(kb_items)
    /\ \A k \in DOMAIN kb_items : index[k] = Embed(kb_items[k].content)

\* C4: after every add_item, remove_item and sync_with_database that
\* returned, and after every load at start-up, the index and kb_items are
\* aligned.
C4_IndexAligned ==
    (last.op \in {"add", "remove", "sync", "load"} /\ last.outcome = "returned") => Aligned

\* C5: remove_item(id) on a matcher that holds id leaves every other item in
\* the list, in the same order.
C5_RemoveKeepsOthers ==
    (last.op = "remove" /\ last.outcome = "returned" /\ last.id \in Ids(last.before)) =>
        kb_items = WithoutId(last.before, last.id)

\* C6: after sync_with_database(items) the item list is items, the index
\* holds one vector per item and every id of items is known.
C6_SyncReplaces ==
    (last.op = "sync" /\ last.outcome = "returned") =>
        /\ kb_items = last.arg
        /\ Len(index) = Len(last.arg)
        /\ Ids(last.arg) \subseteq DOMAIN id_to_index

\* C7: a search (from a route or from the pipeline) returns no id whose
\* remove_item has returned on this matcher and that was not added since,
\* whatever add_item, remove_item and sync_with_database calls came between.
\* A restart builds a new matcher from the files and begins a new history.
C7_Tombstone ==
    call.op # "none" =>
        \A i \in DOMAIN results : results[i].kb_item_id \notin removed

\* A search made right after remove_item removed an id the matcher held.
C7_Witness ==
    /\ call.op = "search"
    /\ last.op = "remove"
    /\ last.outcome = "returned"
    /\ last.id \in Ids(last.before)
    /\ last.id \in removed

VisibleTo(tenant, id) == TenantOf(id) \in {NoTenant, tenant}

\* C8: no match handed to a requester of a tenant refers to an item of
\* another tenant: not in a search that names the tenant, and not in the
\* rows the pipeline stores for the owner of a document.
C8_TenantIsolation ==
    /\ (call.op = "search" /\ call.tenant_id # NoTenant) =>
          \A i \in DOMAIN results : VisibleTo(call.tenant_id, results[i].kb_item_id)
    /\ \A row \in match_rows : VisibleTo(row.owner, row.kb_item_id)

\* C9: a list returned by search has at most top_k results, ranked 1, 2, ...
\* in list order.
C9_DenseRanks ==
    call.op # "none" =>
        /\ Len(results) <= call.top_k
        /\ \A i \in DOMAIN results : results[i].rank = i

\* A search that accepted a hit after it had skipped one.
C9_Witness ==
    /\ call.op = "search"
    /\ \E i \in DOMAIN results : call.enum[i] > i

\* C10: a response with non-empty text returned by compose has
\* kb_percentage + ai_percentage within one point of 100.
C10_PercentagesAddUp ==
    (c_pc = "done" /\ c_resp # <<>>) =>
        (c_resp[1].text > 0 =>
            Abs(c_resp[1].kb_percentage + c_resp[1].ai_percentage - 100) <= 1)

\* compose has returned a response.
Returned == c_pc = "done" /\ c_resp # <<>>

\* C11: with no match, or a top match at or under the relevance threshold,
\* compose returns the fixed placeholder text with ai_percentage 100,
\* kb_percentage 0 and one AI_GENERATED span over the whole text, and sends
\* no request to a language model.
C11_MinimalResponse ==
    (Returned /\ c_in.kind \in {"none", "low"}) =>
        /\ c_resp[1].text > 0
        /\ c_resp[1].ai_percentage = 100
        /\ c_resp[1].kb_percentage = 0
        /\ c_resp[1].provenance = <<ProvenanceItem(0, c_resp[1].text, "AI_GENERATED", "")>>
        /\ c_requests = 0
        /\ c_via = [path |-> "minimal", humanize |-> "none"]

\* compose returned for a top match at or under the relevance threshold.
C11_Witness == Returned /\ c_in.kind = "low"

\* Every pass of the attempt loop ran and none met the ceiling.
Exhausted == c_attempt = RefineAttempts

\* C12: when every refinement attempt scored above max_ai_percentage,
\* compose hands back no ordinary response whose ai_percentage is above the
\* ceiling.
C12_ExhaustionReported ==
    (c_pc = "done" /\ Exhausted) =>
        (c_resp = <<>> \/ c_resp[1].ai_percentage <= max_ai_percentage)

\* The call met a failure of the language model: no API key when refinement
\* was due, or a request that failed.
LLMFailed ==
    \/ c_in.kind = "good" /\ c_in.relevant >= 30 /\ ~c_in.api_key
    \/ c_requests > Len(c_scores)

\* C13: after any failure of the language model compose returns a response
\* built from the knowledge-base text by the rule-based transforms alone.
C13_LLMFailureFallsBack ==
    (c_pc = "done" /\ LLMFailed) =>
        /\ c_resp # <<>>
        /\ c_via.path = "fallback"
        /\ c_via.humanize \in {"rules", "original"}

BestScore(scores) ==
    CHOOSE x \in {scores[i] : i \in DOMAIN scores} :
        \A i \in DOMAIN scores : x <= scores[i]

\* C18: the candidate the loop holds is the lowest-scoring one so far, and
\* when the loop exhausts the caller gets that candidate.
C18_BestCandidateKept ==
    /\ (c_pc = "refine" /\ c_scores # <<>>) => Last(c_scores) = BestScore(c_scores)
    /\ (c_pc = "done" /\ Exhausted /\ c_requests = Len(c_scores)) =>
          /\ c_resp # <<>>
          /\ c_via.path = "refined"
          /\ c_resp[1].ai_percentage = BestScore(c_scores)

\* C19: in a returned response every span lies inside the text and no two
\* spans overlap.
C19_ProvenanceInBounds ==
    Returned =>
        LET r == c_resp[1]
        IN  /\ \A i \in DOMAIN r.provenance :
                  /\ 0 <= r.provenance[i].start
                  /\ r.provenance[i].start <= r.provenance[i].end
                  /\ r.provenance[i].end <= r.text
            /\ \A i, j \in DOMAIN r.provenance : i < j =>
                  \/ r.provenance[i].end <= r.provenance[j].start
                  \/ r.provenance[j].end <= r.provenance[i].start

\* C14: in every list extract returns the order fields are strictly
\* increasing and the first one is 0.
C14_OrderFromZero ==
    e_pc = "done" =>
        /\ e_out # <<>> => e_out[1].order = 0
        /\ \A i, j \in DOMAIN e_out : i < j => e_out[i].order < e_out[j].order

\* C15: no list extract returns holds two requirements whose texts are
\* equal ignoring case.
C15_NoDuplicateTexts ==
    e_pc = "done" =>
        \A i, j \in DOMAIN e_out : i < j => Lower(e_out[i].text) # Lower(e_out[j].text)

\* C16: parse accepts exactly the declared types PDF, DOCX and plain text
\* (in any case); for every other declared type, DOC included, it raises
\* the unsupported-type error and no handler is given the bytes.
C16_AcceptedTypes ==
    x_pc = "done" =>
        IF Upper(x_in.file_type) \in {"PDF", "DOCX", "TXT"}
        THEN /\ x_out # <<>>
             /\ x_out[1].error # "ValueError: Unsupported file type"
        ELSE /\ x_out = <<Raised("ValueError: Unsupported file type")>>
             /\ ~x_read

\* C20: _categorize returns the category whose hit count is strictly the
\* highest, and TECHNICAL whenever two or more categories share the highest
\* count.
C20_TiesGoToTechnical ==
    k_result # <<>> =>
        LET m == Max3(k_scores.ELIGIBILITY, k_scores.TECHNICAL, k_scores.COMPLIANCE)
            top == {i \in 1..3 : k_scores[Categories[i]] = m}
        IN  IF Cardinality(top) = 1
            THEN \A i \in top : k_result[1].category = Categories[i]
            ELSE k_result[1].category = "TECHNICAL"

\* The rule-based pass of extract accepts no sentence of the document.
RulesFoundNothing == ExtractLoop(e_in.sentences, 1, <<>>, {}) = <<>>

\* C21: when the rule-based pass accepts no sentence and a key is
\* configured, extract has called the LLM extraction path before it returns.
C21_EmptyFallsBackToLLM ==
    (e_pc = "done" /\ e_in.mistral_key /\ RulesFoundNothing) => e_requests >= 1

\* C22: extract returns at most MaxRequirements requirements.
C22_AtMostCeiling == e_pc = "done" => Len(e_out) <= MaxRequirements

\* C23: add_item returns to its caller also when its save failed, and the
\* item list, the index and the id map then hold the new item.
C23_AddSurvivesSaveFailure ==
    last.op = "add" =>
        /\ last.outcome = "returned"
        /\ last.id \in Ids(kb_items)
        /\ last.id \in DOMAIN id_to_index
        /\ Len(index) >= 1

\* C24: a parse of a PDF that took the OCR branch returns a document that
\* has at least the text and the pages direct extraction gave.
C24_OcrNeverLosesText ==
    (/\ x_pc = "done"
     /\ Handler(x_in.file_type) = "pdf"
     /\ x_in.content.valid
     /\ OcrTriggered(x_in.content)) =>
        /\ x_out[1].kind = "returned"
        /\ x_out[1].raw_text >= x_in.content.text + x_in.content.pad
        /\ x_out[1].pages = x_in.content.pages

\* C25: of two texts the composer's detector scored that have the same word
\* count and the same other signals, the one whose comma density is above
\* the threshold has the strictly higher raw total.
C25_CommaDensityPenalty ==
    (/\ d_pc = "done"
     /\ d_in.detector = "service"
     /\ d_in.word_count >= 5
     /\ CommaScore(d_in.commas[1], d_in.word_count) > 0
     /\ CommaScore(d_in.commas[2], d_in.word_count) = 0) =>
        d_out[1].raw > d_out[2].raw

\* Some run was started, and every run that was started has returned or raised.
RunsEnded ==
    /\ queue = 0
    /\ \A w \in Workers : ~Running(w)
    /\ \E w \in Workers : pc[w] \in {"done", "raised"}

\* C26: once every started run of process_document has ended, the document
\* is not in PARSING, EXTRACTING or MATCHING, the statuses from which
\* trigger_processing refuses a new run.
C26_NeverStuckInProgress ==
    RunsEnded => doc.status \notin {"PARSING", "EXTRACTING", "MATCHING"}

\* C27: a step taken while the response is APPROVED leaves its response_text
\* and its version as they were.
C27_ApprovedIsFrozen ==
    [][response.status = "APPROVED" =>
          /\ response'.response_text = response.response_text
          /\ response'.version = response.version]_vars

\* C29: the first match process_response_generation hands to compose has
\* rank 1 and carries the similarity score of its own item.
C29_ComposeGetsRankOne ==
    g_matches # <<>> =>
        /\ g_matches[1].rank = 1
        /\ g_matches[1].score = ItemScore[g_matches[1].kb_item_id]

\* C28: the requirements stored for the document are those of one
\* extraction: no text and no extraction_order occurs twice, and a run that
\* is at its matching step reads exactly the requirements it extracted.
C28_RequirementsOfLatestRun ==
    /\ \A i, j \in DOMAIN req_rows :
          i # j => /\ req_rows[i].requirement_text # req_rows[j].requirement_text
                   /\ req_rows[i].extraction_order # req_rows[j].extraction_order
    /\ \A w \in Workers :
          (pc[w] = "try" /\ Steps[step[w]].name = "match") =>
              req_rows = DocRequirements

\* C30: search returns min(top_k, E) results, E being the number of items
\* the searching tenant may see that score at least min_score.
C30_ExactResultCount ==
    s_pc = "done" =>
        Len(s_out) = Min(s_in.top_k,
                         Eligible(s_in.items, "q", s_in.min_score, s_in.tenant_id))

====
